---------------------------- MODULE Spec2Model ----------------------------
(***************************************************************************)
(* MedTrack: the App component's bootstrap effect (App.tsx), the Firebase  *)
(* service-worker content generator (firebase-sw-config.ts) and the        *)
(* run-time behaviour of the script the generator emits.                   *)
(*                                                                         *)
(* Three specifications share the module:                                  *)
(*   Spec    - the mount / delayed initializeApp / focus / unmount effect  *)
(*   SpecGen - getFirebaseServiceWorkerConfig and the content generator    *)
(*   SpecSW  - evaluation of the generated script and its message handler  *)
(***************************************************************************)
EXTENDS Integers, Sequences, FiniteSets, TLC

VARIABLES
  (* ---- App.tsx effect ---- *)
  mounted,        \* the component is mounted (cleanup has not run)
  timer,          \* the setTimeout handle: "pending", "fired", "cleared"
  listener,       \* handleFocus is registered on window
  pc,             \* position of initializeApp
  reminders,      \* useMedicationStore.getState().reminders.length
  medications,    \* useMedicationStore.getState().medications.length
  calls,          \* service calls made by initializeApp, in order
  inFlight,       \* bootstrap calls started and not yet settled
  outcome,        \* how each awaited bootstrap call settled
  successChecks,  \* checkMissedNotifications calls at line 105
  fallbackChecks, \* checkMissedNotifications calls at line 110
  focusEvents,    \* window focus events delivered so far
  mountedFocus,   \* focus events delivered while the component was mounted
  focusChecks,    \* checkMissedNotifications calls made by handleFocus
  focusPhases,    \* bootstrap phases during which handleFocus has run
  postTeardown,   \* <<origin, call>> of every service call made after unmount
  unmountPhase,   \* bootstrap phase at the moment of unmount ("none" before it)
  (* ---- firebase-sw-config.ts generator ---- *)
  hasProcessEnv,  \* typeof process !== 'undefined' && process.env
  processEnv,     \* process.env
  metaEnv,        \* import.meta.env
  genOutput,      \* the text returned by the generator, as a sequence of lines
  genCalls,       \* number of generator calls made
  (* ---- the generated script at run time ---- *)
  swConfig,       \* the configuration the script was generated from
  swPc,           \* "start", "done" (ran to its end), "aborted" (uncaught error)
  swAbortCause,   \* the statement whose error escaped the script
  swSteps,        \* outcome of each Firebase statement inside the try block
  swMessaging,    \* the script's `messaging` binding
  swExported,     \* self.firebaseMessaging
  swRegistered,   \* the background-message handler is registered with Firebase
  swMsgCount,     \* background messages handled
  swLast,         \* what the handler did with the last message
  swCaller        \* result of a caller invoking the exported registration method

appVars == <<mounted, timer, listener, pc, reminders, medications, calls,
             inFlight, outcome, successChecks, fallbackChecks, focusEvents,
             mountedFocus, focusChecks, focusPhases, postTeardown, unmountPhase>>
genVars == <<hasProcessEnv, processEnv, metaEnv, genOutput, genCalls>>
swVars  == <<swConfig, swPc, swAbortCause, swSteps, swMessaging, swExported,
             swRegistered, swMsgCount, swLast, swCaller>>
vars    == <<appVars, genVars, swVars>>

(***************************************************************************)
(* Bounds of the model.                                                    *)
(***************************************************************************)
MaxReminders   == 2
MaxMedications == 2
MaxFocus       == 3
MaxGenCalls    == 2
MaxMessages    == 2

(***************************************************************************)
(* JavaScript values shared by the three parts.                            *)
(***************************************************************************)
Undefined == "<undefined>"
Truthy(v) == v # "" /\ v # Undefined
JsOr(a, b)  == IF Truthy(a) THEN a ELSE b
JsAnd(a, b) == IF Truthy(a) THEN b ELSE a


(***************************************************************************)
(* App.tsx: the effect of lines 42-129.                                    *)
(***************************************************************************)
Initialize == "initialize"
Sync       == "syncUserDataToBackend"
Migrate    == "migrateExistingReminders"
Diagnose   == "diagnoseIOSPWANotificationIssues"
Recovery   == "implementMissedDoseRecovery"
Check      == "checkMissedNotifications"

AwaitedSteps == {Initialize, Sync, Migrate, Diagnose, Recovery}
Steps        == AwaitedSteps \cup {Check}

\* initializeApp is suspended at `await <step>`; Check is not awaited and ends it.
AwaitOf(step) == IF step = Check THEN "done" ELSE "await_" \o step

PcValues == {"idle", "done"} \cup {AwaitOf(s) : s \in AwaitedSteps}

\* The three points of the bootstrap lifecycle: the timer has not fired, the
\* task is suspended at an await, the task has run to its end.
Phase(p) == IF p = "idle" THEN "pending"
            ELSE IF p = "done" THEN "finished" ELSE "inflight"

InCalls(step) == \E i \in DOMAIN calls : calls[i] = step

\* initializeApp resumes after `settled` has settled (Undefined when it is just
\* starting) and makes the calls `ops` before it suspends again or returns.
\* nStd / nFb count the checkMissedNotifications calls of lines 105 / 110.
Invoke(settled, ops, nStd, nFb) ==
  /\ calls' = calls \o ops
  /\ inFlight' = (inFlight \ {settled}) \cup {ops[i] : i \in DOMAIN ops}
  /\ pc' = AwaitOf(ops[Len(ops)])
  /\ successChecks' = successChecks + nStd
  /\ fallbackChecks' = fallbackChecks + nFb
  /\ postTeardown' = IF mounted THEN postTeardown
                     ELSE postTeardown \cup {<<"bootstrap", ops[i]>> : i \in DOMAIN ops}

\* line 105: the standard check that ends the try block.  The call is not
\* awaited: it returns to initializeApp, and how its promise settles is not
\* observed by the task.
StandardCheck(settled) == Invoke(settled, <<Check>>, 1, 0)

\* FallbackCheck with the standard check placed after the try/catch as well
FallbackCheck_Twice(settled) == Invoke(settled, <<Check, Check>>, 1, 1)

\* lines 107-111: the catch block's fallback check
FallbackCheck(settled) == Invoke(settled, <<Check>>, 0, 1)

\* lines 93-95: the diagnostic is started unconditionally
RunDiagnostic(settled) == Invoke(settled, <<Diagnose>>, 0, 0)

\* lines 80-88: migration only when both collections are non-empty
RunMigration(settled) ==
  IF reminders > 0 /\ medications > 0
  THEN Invoke(settled, <<Migrate>>, 0, 0)
  ELSE RunDiagnostic(settled)

\* AfterInitialize without the catch of lines 74-77: the rejection ends the task
AfterInitialize_Uncaught(o) ==
  IF o = "rejected"
  THEN /\ pc' = "done"
       /\ inFlight' = inFlight \ {Initialize}
       /\ UNCHANGED <<calls, successChecks, fallbackChecks, postTeardown>>
  ELSE IF reminders > 0 \/ medications > 0
       THEN Invoke(Initialize, <<Sync>>, 0, 0)
       ELSE RunMigration(Initialize)

\* AfterInitialize with the data push moved out of the try block
AfterInitialize_SyncAlways(o) ==
  IF reminders > 0 \/ medications > 0
  THEN Invoke(Initialize, <<Sync>>, 0, 0)
  ELSE RunMigration(Initialize)

\* lines 54-77: what follows `await backendSyncService.initialize()`.  The
\* data push sits in the same try block, so a rejection skips it.
AfterInitialize(o) ==
  IF o = "resolved" /\ (reminders > 0 \/ medications > 0)
  THEN Invoke(Initialize, <<Sync>>, 0, 0)
  ELSE RunMigration(Initialize)

\* AfterDiagnose with the recovery started but not awaited
AfterDiagnose_NoAwait(o) ==
  CASE o = "iosSafari" -> Invoke(Diagnose, <<Recovery, Check>>, 1, 0)
    [] o = "other"     -> StandardCheck(Diagnose)
    [] OTHER           -> FallbackCheck(Diagnose)

\* lines 95-111: what follows `await diagnoseIOSPWANotificationIssues()`.
\* "malformed" is a record without a textual coreIssue: line 99 throws.
AfterDiagnose(o) ==
  CASE o = "iosSafari" -> Invoke(Diagnose, <<Recovery>>, 0, 0)
    [] o = "other"     -> StandardCheck(Diagnose)
    [] OTHER           -> FallbackCheck(Diagnose)

\* lines 101-111: what follows `await implementMissedDoseRecovery()`
AfterRecovery(o) ==
  IF o = "resolved" THEN StandardCheck(Recovery) ELSE FallbackCheck(Recovery)

Settle(step, o) == outcome' = [outcome EXCEPT ![step] = o]

\* line 115: the 1500 ms timer fires and initializeApp runs to its first await
TimerFire ==
  /\ timer = "pending"
  /\ timer' = "fired"
  /\ Invoke(Undefined, <<Initialize>>, 0, 0)
  /\ UNCHANGED <<mounted, listener, reminders, medications, outcome,
                 focusEvents, mountedFocus, focusChecks, focusPhases, unmountPhase>>
  /\ UNCHANGED <<genVars, swVars>>

AppFrame == UNCHANGED <<mounted, timer, listener, reminders, medications,
                        focusEvents, mountedFocus, focusChecks, focusPhases,
                        unmountPhase, genVars, swVars>>

InitializeSettled ==
  /\ pc = AwaitOf(Initialize)
  /\ \E o \in {"resolved", "rejected"} : Settle(Initialize, o) /\ AfterInitialize(o)
  /\ AppFrame

SyncSettled ==
  /\ pc = AwaitOf(Sync)
  /\ \E o \in {"true", "false", "rejected"} : Settle(Sync, o) /\ RunMigration(Sync)
  /\ AppFrame

MigrateSettled ==
  /\ pc = AwaitOf(Migrate)
  /\ \E o \in {"resolved", "rejected"} : Settle(Migrate, o) /\ RunDiagnostic(Migrate)
  /\ AppFrame

DiagnoseSettled ==
  /\ pc = AwaitOf(Diagnose)
  /\ \E o \in {"iosSafari", "other", "malformed", "rejected"} :
        Settle(Diagnose, o) /\ AfterDiagnose(o)
  /\ AppFrame

RecoverySettled ==
  /\ pc = AwaitOf(Recovery)
  /\ \E o \in {"resolved", "rejected"} : Settle(Recovery, o) /\ AfterRecovery(o)
  /\ AppFrame

\* handleFocus that checks only once the bootstrap has finished
handleFocus_AfterBootstrapOnly ==
  /\ focusChecks' = IF pc = "done" THEN focusChecks + 1 ELSE focusChecks
  /\ focusPhases' = focusPhases \cup {Phase(pc)}
  /\ postTeardown' = postTeardown

\* lines 118-121
handleFocus ==
  /\ focusChecks' = focusChecks + 1
  /\ focusPhases' = focusPhases \cup {Phase(pc)}
  /\ postTeardown' = IF mounted THEN postTeardown
                     ELSE postTeardown \cup {<<"focus", Check>>}

\* the browser dispatches a focus event to the listeners registered at line 123
WindowFocus ==
  /\ focusEvents < MaxFocus
  /\ focusEvents' = focusEvents + 1
  /\ mountedFocus' = IF mounted THEN mountedFocus + 1 ELSE mountedFocus
  /\ IF listener THEN handleFocus
     ELSE UNCHANGED <<focusChecks, focusPhases, postTeardown>>
  /\ UNCHANGED <<mounted, timer, listener, pc, reminders, medications, calls,
                 inFlight, outcome, successChecks, fallbackChecks, unmountPhase>>
  /\ UNCHANGED <<genVars, swVars>>

\* cleanup that forgets clearTimeout
ClearTimeout_Missing == UNCHANGED timer

\* line 126: clearTimeout cancels a timer that has not fired
ClearTimeout == timer' = IF timer = "pending" THEN "cleared" ELSE timer

\* cleanup that forgets removeEventListener
RemoveFocusListener_Missing == UNCHANGED listener

\* line 127
RemoveFocusListener == listener' = FALSE

\* lines 125-128: the effect's cleanup
Unmount ==
  /\ mounted
  /\ mounted' = FALSE
  /\ unmountPhase' = Phase(pc)
  /\ ClearTimeout
  /\ RemoveFocusListener
  /\ UNCHANGED <<pc, reminders, medications, calls, inFlight, outcome,
                 successChecks, fallbackChecks, focusEvents, mountedFocus,
                 focusChecks, focusPhases, postTeardown>>
  /\ UNCHANGED <<genVars, swVars>>

\* the state right after the effect has run on mount (lines 115 and 123)
InitApp ==
  /\ mounted = TRUE
  /\ timer = "pending"
  /\ listener = TRUE
  /\ pc = "idle"
  /\ reminders \in 0..MaxReminders
  /\ medications \in 0..MaxMedications
  /\ calls = <<>>
  /\ inFlight = {}
  /\ outcome = [s \in AwaitedSteps |-> "none"]
  /\ successChecks = 0
  /\ fallbackChecks = 0
  /\ focusEvents = 0
  /\ mountedFocus = 0
  /\ focusChecks = 0
  /\ focusPhases = {}
  /\ postTeardown = {}
  /\ unmountPhase = "none"

\* the App component is not running in SpecGen and SpecSW
AppIdle ==
  /\ mounted = FALSE
  /\ timer = "cleared"
  /\ listener = FALSE
  /\ pc = "idle"
  /\ reminders = 0
  /\ medications = 0
  /\ calls = <<>>
  /\ inFlight = {}
  /\ outcome = [s \in AwaitedSteps |-> "none"]
  /\ successChecks = 0
  /\ fallbackChecks = 0
  /\ focusEvents = 0
  /\ mountedFocus = 0
  /\ focusChecks = 0
  /\ focusPhases = {}
  /\ postTeardown = {}
  /\ unmountPhase = "none"

NextApp ==
  \/ TimerFire
  \/ InitializeSettled
  \/ SyncSettled
  \/ MigrateSettled
  \/ DiagnoseSettled
  \/ RecoverySettled
  \/ WindowFocus
  \/ Unmount


(***************************************************************************)
(* firebase-sw-config.ts: the configuration reader and the generator.      *)
(***************************************************************************)
EnvKeys == {"VITE_FIREBASE_API_KEY", "VITE_FIREBASE_AUTH_DOMAIN",
            "VITE_FIREBASE_PROJECT_ID", "VITE_FIREBASE_STORAGE_BUCKET",
            "VITE_FIREBASE_MESSAGING_SENDER_ID", "VITE_FIREBASE_APP_ID"}

\* an environment variable is unset, set to the empty string, or set
EnvValues == {Undefined, "", "a", "b"}

\* import.meta.env, used only when process.env is absent
MetaEnvs == {[k \in EnvKeys |-> Undefined], [k \in EnvKeys |-> "m"]}

ConfigKeys == {"apiKey", "authDomain", "projectId", "storageBucket",
               "messagingSenderId", "appId"}

\* lines 6-18
getFirebaseServiceWorkerConfig(hasProcess, procEnv, importMetaEnv) ==
  LET env == IF hasProcess THEN procEnv ELSE importMetaEnv
  IN  [apiKey            |-> JsOr(env["VITE_FIREBASE_API_KEY"], ""),
       authDomain        |-> JsOr(env["VITE_FIREBASE_AUTH_DOMAIN"], ""),
       projectId         |-> JsOr(env["VITE_FIREBASE_PROJECT_ID"], ""),
       storageBucket     |-> JsOr(env["VITE_FIREBASE_STORAGE_BUCKET"], ""),
       messagingSenderId |-> JsOr(env["VITE_FIREBASE_MESSAGING_SENDER_ID"], ""),
       appId             |-> JsOr(env["VITE_FIREBASE_APP_ID"], "")]

\* hasValidConfig that forgets messagingSenderId
hasValidConfig_NoSender(config) == JsAnd(config.apiKey, config.projectId)

\* line 24: an && chain of strings, used for its truthiness at line 32
hasValidConfig(config) ==
  JsAnd(JsAnd(config.apiKey, config.projectId), config.messagingSenderId)

\* The generated text, line by line.  A line is <<kind, text, value>>: fixed
\* text has kind "text"; an interpolated line has kind "field", the key it
\* belongs to and the raw (unescaped) value spliced between the quotes.
Text(t)        == <<"text", t, "">>
Field(key, v)  == <<"field", key, v>>

ImportApp ==
  Text("importScripts('https://www.gstatic.com/firebasejs/10.7.1/firebase-app-compat.js');")
ImportMessaging ==
  Text("importScripts('https://www.gstatic.com/firebasejs/10.7.1/firebase-messaging-compat.js');")
ConfigOpen   == Text("const firebaseConfig = {")
ConfigClose  == Text("};")
DisabledWarn == Text("console.warn('Firebase configuration not available - FCM disabled');")
ConfigNull   == Text("const firebaseConfig = null;")

\* lines 26-31
HeaderLines == <<Text("/** Firebase Cloud Messaging Service Worker for MedTrack */")>>

\* lines 32-45
ValidBranch(config) ==
  <<ImportApp, ImportMessaging, ConfigOpen,
    Field("apiKey", config.apiKey),
    Field("authDomain", config.authDomain),
    Field("projectId", config.projectId),
    Field("storageBucket", config.storageBucket),
    Field("messagingSenderId", config.messagingSenderId),
    Field("appId", config.appId),
    ConfigClose>>

\* lines 45-48
DisabledBranch == <<DisabledWarn, ConfigNull>>

\* lines 50-124: the fixed tail, the same in both variants
RuntimeLines ==
  <<Text("let messaging = null;"),
    Text("try { if (firebaseConfig && firebaseConfig.apiKey && firebaseConfig.projectId) {"),
    Text("firebase.initializeApp(firebaseConfig);"),
    Text("messaging = firebase.messaging();"),
    Text("messaging.onBackgroundMessage((payload) => { ... });"),
    Text("} else { console.warn(...) } } catch (error) { console.error(...) }"),
    Text("if (!messaging) { messaging = { onBackgroundMessage: () => { console.warn(...) } }; }"),
    Text("self.firebaseMessaging = messaging;")>>

\* lines 20-125
generateFirebaseServiceWorkerContent(hasProcess, procEnv, importMetaEnv) ==
  LET config == getFirebaseServiceWorkerConfig(hasProcess, procEnv, importMetaEnv)
  IN  HeaderLines
      \o (IF Truthy(hasValidConfig(config)) THEN ValidBranch(config) ELSE DisabledBranch)
      \o RuntimeLines

Generate ==
  /\ genCalls < MaxGenCalls
  /\ genCalls' = genCalls + 1
  /\ genOutput' = generateFirebaseServiceWorkerContent(hasProcessEnv, processEnv, metaEnv)
  /\ UNCHANGED <<hasProcessEnv, processEnv, metaEnv>>
  /\ UNCHANGED <<appVars, swVars>>

InitGen ==
  /\ hasProcessEnv \in BOOLEAN
  /\ processEnv \in [EnvKeys -> EnvValues]
  /\ metaEnv \in MetaEnvs
  /\ genOutput = <<>>
  /\ genCalls = 0

GenIdle ==
  /\ hasProcessEnv = FALSE
  /\ processEnv = [k \in EnvKeys |-> Undefined]
  /\ metaEnv = [k \in EnvKeys |-> Undefined]
  /\ genOutput = <<>>
  /\ genCalls = 0

(***************************************************************************)
(* The generated script at run time (the template text of lines 32-124).   *)
(***************************************************************************)
\* lines 38-48: firebaseConfig is the object literal, or null
ScriptHasConfig(config) == Truthy(hasValidConfig(config))

\* line 54
EntersInit(config) ==
  ScriptHasConfig(config) /\ Truthy(JsAnd(config.apiKey, config.projectId))

\* lines 53-112: the try block.  ia, ms, reg are what firebase.initializeApp,
\* firebase.messaging and messaging.onBackgroundMessage do when reached.
\* `messaging` is assigned at line 57, before the handler is registered.
TryBlock(enter, ia, ms, reg) ==
  [steps |-> [initializeApp |-> IF enter THEN ia ELSE "skipped",
              messaging |-> IF enter /\ ia = "ok" THEN ms ELSE "skipped",
              onBackgroundMessage |->
                 IF enter /\ ia = "ok" /\ ms = "ok" THEN reg ELSE "skipped"],
   messaging  |-> IF enter /\ ia = "ok" /\ ms = "ok" THEN "real" ELSE "null",
   registered |-> enter /\ ia = "ok" /\ ms = "ok" /\ reg = "ok"]

\* lines 114-121
FallbackMessaging(m) == IF m = "null" THEN "standin" ELSE m

NoSteps == [initializeApp |-> "skipped", messaging |-> "skipped",
            onBackgroundMessage |-> "skipped"]

\* The script is evaluated from its first statement to its last.  importScripts
\* (lines 34-35, valid variant only) is outside the try block.
RunScript ==
  /\ swPc = "start"
  /\ \E imp \in {"ok", "throws"}, ia \in {"ok", "throws"},
        ms \in {"ok", "throws"}, reg \in {"ok", "throws"} :
       IF ScriptHasConfig(swConfig) /\ imp = "throws"
       THEN /\ swPc' = "aborted"
            /\ swAbortCause' = "importScripts"
            /\ UNCHANGED <<swSteps, swMessaging, swExported, swRegistered>>
       ELSE LET t == TryBlock(EntersInit(swConfig), ia, ms, reg)
            IN  /\ swPc' = "done"
                /\ swSteps' = t.steps
                /\ swMessaging' = FallbackMessaging(t.messaging)
                /\ swExported' = FallbackMessaging(t.messaging)
                /\ swRegistered' = t.registered
                /\ UNCHANGED swAbortCause
  /\ UNCHANGED <<swConfig, swMsgCount, swLast, swCaller>>
  /\ UNCHANGED <<appVars, genVars>>

\* A later caller invokes self.firebaseMessaging.onBackgroundMessage(cb).  The
\* stand-in of lines 116-120 logs a warning and returns; the real Firebase
\* object registers the callback or throws.
CallExported ==
  /\ swPc = "done"
  /\ swCaller = "none"
  /\ \E r \in {"registered", "threw"} :
       swCaller' = IF swExported = "standin" THEN "warned" ELSE r
  /\ UNCHANGED <<swConfig, swPc, swAbortCause, swSteps, swMessaging, swExported,
                 swRegistered, swMsgCount, swLast>>
  /\ UNCHANGED <<appVars, genVars>>

\* payload.notification?.title / body / icon and payload.data?.medicationId
Payloads == [title : {Undefined, "T"}, body : {Undefined, "B"},
             icon : {Undefined, "/i.png"}, medicationId : {Undefined, "42"}]

NoNotification ==
  [kind |-> "none", title |-> "", body |-> "", icon |-> "", badge |-> "",
   tag |-> "", requireInteraction |-> FALSE, actions |-> <<>>, fcm |-> FALSE]

\* lines 67-87
FullNotification(p) ==
  [kind |-> "full",
   title |-> JsOr(p.title, "MedTrack Reminder"),
   body |-> JsOr(p.body, "Time for your medication"),
   icon |-> JsOr(p.icon, "/pill-icon.svg"),
   badge |-> "/pill-icon.svg",
   tag |-> IF Truthy(p.medicationId) THEN "medication_" \o p.medicationId
           ELSE "medtrack-fcm",
   requireInteraction |-> TRUE,
   actions |-> <<"take", "snooze", "skip">>,
   fcm |-> TRUE]

\* lines 96-101
MinimalNotification ==
  [kind |-> "minimal",
   title |-> "MedTrack Reminder",
   body |-> "Time for your medication",
   icon |-> "/pill-icon.svg",
   badge |-> "/pill-icon.svg",
   tag |-> "",
   requireInteraction |-> TRUE,
   actions |-> <<>>,
   fcm |-> FALSE]

\* lines 62-103: the handler.  full / fb are what showNotification does for
\* the full and for the minimal notification: it throws synchronously, or it
\* returns a promise that resolves (shown) or rejects (not shown).  Line 90
\* returns the promise without awaiting it, so the catch block sees only a
\* synchronous throw.
HandleMessage(p, full, fb) ==
  IF full # "throws"
  THEN [payload |-> p, fullOutcome |-> full,
        fallbackCalled |-> FALSE, fallbackOutcome |-> "none",
        shown |-> IF full = "resolves" THEN FullNotification(p) ELSE NoNotification,
        result |-> IF full = "resolves" THEN "resolved" ELSE "rejected"]
  ELSE [payload |-> p, fullOutcome |-> full,
        fallbackCalled |-> TRUE, fallbackOutcome |-> fb,
        shown |-> IF fb = "resolves" THEN MinimalNotification ELSE NoNotification,
        result |-> CASE fb = "resolves" -> "resolved"
                     [] fb = "rejects"  -> "rejected"
                     [] OTHER           -> "threw"]

ShowOutcomes == {"resolves", "rejects", "throws"}

\* Firebase delivers a background message to the registered handler
OnBackgroundMessage ==
  /\ swRegistered
  /\ swMsgCount < MaxMessages
  /\ swMsgCount' = swMsgCount + 1
  /\ \E p \in Payloads, full \in ShowOutcomes, fb \in ShowOutcomes :
       swLast' = HandleMessage(p, full, fb)
  /\ UNCHANGED <<swConfig, swPc, swAbortCause, swSteps, swMessaging, swExported,
                 swRegistered, swCaller>>
  /\ UNCHANGED <<appVars, genVars>>

NoMessage ==
  [payload |-> [title |-> Undefined, body |-> Undefined, icon |-> Undefined,
                medicationId |-> Undefined],
   fullOutcome |-> "none", fallbackCalled |-> FALSE, fallbackOutcome |-> "none",
   shown |-> NoNotification, result |-> "none"]

SWStart ==
  /\ swPc = "start"
  /\ swAbortCause = "none"
  /\ swSteps = NoSteps
  /\ swMessaging = "null"
  /\ swExported = "null"
  /\ swRegistered = FALSE
  /\ swMsgCount = 0
  /\ swLast = NoMessage
  /\ swCaller = "none"

\* the script was generated from some configuration; values are empty or set
InitSW ==
  /\ swConfig \in [ConfigKeys -> {"", "k"}]
  /\ SWStart

SWIdle ==
  /\ swConfig = [k \in ConfigKeys |-> ""]
  /\ SWStart

(***************************************************************************)
(* Specifications.                                                         *)
(***************************************************************************)
Init == InitApp /\ GenIdle /\ SWIdle
Next == NextApp
Spec == Init /\ [][Next]_vars

InitG == AppIdle /\ InitGen /\ SWIdle
NextG == Generate
SpecGen == InitG /\ [][NextG]_vars

InitS == AppIdle /\ GenIdle /\ InitSW
NextS ==
  \/ RunScript
  \/ CallExported
  \/ OnBackgroundMessage
SpecSW == InitS /\ [][NextS]_vars

TypeOK ==
  /\ mounted \in BOOLEAN
  /\ timer \in {"pending", "fired", "cleared"}
  /\ listener \in BOOLEAN
  /\ pc \in PcValues
  /\ reminders \in 0..MaxReminders
  /\ medications \in 0..MaxMedications
  /\ inFlight \subseteq Steps
  /\ focusEvents \in 0..MaxFocus
  /\ focusPhases \subseteq {"pending", "inflight", "finished"}
  /\ unmountPhase \in {"none", "pending", "inflight", "finished"}
  /\ genCalls \in 0..MaxGenCalls
  /\ swPc \in {"start", "done", "aborted"}
  /\ swExported \in {"null", "real", "standin"}
  /\ swMsgCount \in 0..MaxMessages


(***************************************************************************)
(* Properties of the App effect (Spec).                                    *)
(***************************************************************************)

\* C1: when backendSyncService.initialize() rejects, initializeApp goes on:
\* the migration is called when reminders and medications are both non-empty,
\* the diagnostic is called, and checkMissedNotifications is called by the
\* time the task ends; the rejection never ends the task early.
InitRejectionDoesNotAbort ==
  outcome[Initialize] = "rejected" =>
    /\ pc \in {AwaitOf(Migrate), AwaitOf(Diagnose), AwaitOf(Recovery), "done"}
    /\ (reminders > 0 /\ medications > 0) => InCalls(Migrate)
    /\ pc # AwaitOf(Migrate) => InCalls(Diagnose)
    /\ pc = "done" => InCalls(Check)

InitRejectedRunCompleted ==
  /\ pc = "done"
  /\ outcome[Initialize] = "rejected"
  /\ reminders > 0 /\ medications > 0
  /\ InCalls(Migrate) /\ InCalls(Diagnose) /\ InCalls(Check)

\* C2: when the component is unmounted while the 1500 ms timer is still
\* pending, initializeApp never runs in any later state: no service call is
\* made by the bootstrap, nothing is in flight, no bootstrap check is made.
UnmountBeforeTimerPreventsBootstrap ==
  unmountPhase = "pending" =>
    /\ pc = "idle"
    /\ calls = <<>>
    /\ inFlight = {}
    /\ successChecks = 0 /\ fallbackChecks = 0
    /\ \A s \in AwaitedSteps : outcome[s] = "none"

UnmountedWhileTimerPending ==
  /\ unmountPhase = "pending"
  /\ ~mounted
  /\ focusEvents > mountedFocus

\* C3 as stated: once the component is unmounted no service call is made any
\* more, at whatever point of the bootstrap lifecycle the unmount happens.
NoCallAfterTeardown == postTeardown = {}

\* C3 as amended: after the unmount no focus event makes a call, and the
\* bootstrap makes a call only when it was already suspended at an await at
\* the moment of the unmount (an unmount while the timer is pending or after
\* the task has finished is followed by no call at all).
PostTeardownCallsOnlyFromInFlightBootstrap ==
  /\ \A c \in postTeardown : c[1] = "bootstrap"
  /\ postTeardown # {} => unmountPhase = "inflight"
  /\ ~mounted => focusChecks = mountedFocus

InFlightBootstrapOutlivesUnmount ==
  /\ ~mounted
  /\ unmountPhase = "inflight"
  /\ <<"bootstrap", Check>> \in postTeardown
  /\ focusEvents > mountedFocus

\* C4 as stated: syncUserDataToBackend is invoked if and only if the store
\* held a reminder or a medication, whether initialize() succeeded or failed.
SyncIffLocalData ==
  pc = "done" => (InCalls(Sync) <=> (reminders > 0 \/ medications > 0))

\* C4 as amended: syncUserDataToBackend is invoked if and only if
\* initialize() resolved and the store held a reminder or a medication; a
\* rejected initialize() skips the data push.
SyncIffInitializedAndLocalData ==
  pc \notin {"idle", AwaitOf(Initialize)} =>
    (InCalls(Sync) <=>
       (outcome[Initialize] = "resolved" /\ (reminders > 0 \/ medications > 0)))

SyncSkippedAfterRejectedInitialize ==
  /\ pc = "done"
  /\ outcome[Initialize] = "rejected"
  /\ reminders > 0
  /\ ~InCalls(Sync)

Rank(step) ==
  CASE step = Initialize -> 1
    [] step = Sync       -> 2
    [] step = Migrate    -> 3
    [] step = Diagnose   -> 4
    [] step = Recovery   -> 5
    [] OTHER             -> 6

\* C5: the bootstrap steps run one at a time in the fixed order initialize,
\* syncUserDataToBackend, migrateExistingReminders, diagnose, recovery,
\* checkMissedNotifications: a step begins only when the one before it has
\* settled, and never two are in flight together.
BootstrapStepsSequential ==
  /\ Cardinality(inFlight) <= 1
  /\ \A i, j \in DOMAIN calls : i < j => Rank(calls[i]) < Rank(calls[j])
  /\ pc = "idle" => calls = <<>> /\ inFlight = {}
  /\ pc # "idle" => /\ calls[1] = Initialize
                    /\ inFlight = {calls[Len(calls)]}
                    /\ pc = AwaitOf(calls[Len(calls)])

AllSixStepsRan ==
  /\ pc = "done"
  /\ calls = <<Initialize, Sync, Migrate, Diagnose, Recovery, Check>>

\* C9: every focus event delivered while the component is mounted makes
\* exactly one checkMissedNotifications call, in whatever phase of the
\* bootstrap it arrives, and leaves the bootstrap task as it was.
FocusTriggersExactlyOneCheck ==
  [][mountedFocus' = mountedFocus + 1 =>
       /\ focusChecks' = focusChecks + 1
       /\ UNCHANGED <<timer, pc, calls, inFlight, outcome, successChecks,
                      fallbackChecks>>]_vars

FocusSeenInEveryPhase ==
  /\ focusPhases = {"pending", "inflight", "finished"}
  /\ focusChecks = 3
  /\ pc = "done"
  /\ Len(calls) = 6

HasLine(l) == \E i \in DOMAIN genOutput : genOutput[i] = l

HasFieldLine == \E i \in DOMAIN genOutput : genOutput[i][1] = "field"

\* C6: the generator emits exactly one of the two variants: both importScripts
\* statements and the six interpolated fields if and only if apiKey,
\* projectId and messagingSenderId are all non-empty, otherwise the null
\* stand-in and no import; the other three values do not matter.
GeneratorBranchByValidity ==
  genCalls > 0 =>
    LET config == getFirebaseServiceWorkerConfig(hasProcessEnv, processEnv, metaEnv)
        valid  == config.apiKey # "" /\ config.projectId # ""
                    /\ config.messagingSenderId # ""
    IN  /\ valid =>
              /\ HasLine(ImportApp) /\ HasLine(ImportMessaging)
              /\ \A k \in ConfigKeys : HasLine(Field(k, config[k]))
              /\ ~HasLine(ConfigNull)
        /\ ~valid =>
              /\ HasLine(ConfigNull)
              /\ ~HasLine(ImportApp) /\ ~HasLine(ImportMessaging)
              /\ ~HasFieldLine

ValidWithoutOptionalValues ==
  /\ genCalls > 0
  /\ hasProcessEnv
  /\ processEnv["VITE_FIREBASE_API_KEY"] = "a"
  /\ processEnv["VITE_FIREBASE_PROJECT_ID"] = "b"
  /\ processEnv["VITE_FIREBASE_MESSAGING_SENDER_ID"] = "a"
  /\ processEnv["VITE_FIREBASE_AUTH_DOMAIN"] = Undefined
  /\ processEnv["VITE_FIREBASE_STORAGE_BUCKET"] = ""
  /\ processEnv["VITE_FIREBASE_APP_ID"] = Undefined
  /\ HasLine(ImportApp)
  /\ HasLine(Field("appId", ""))

(***************************************************************************)
(* Properties of the generated script (SpecSW).                            *)
(***************************************************************************)
InitStatements == {"initializeApp", "messaging", "onBackgroundMessage"}

\* C7: once the script has run to its end self.firebaseMessaging is non-null;
\* it is the real messaging object when Firebase initialised without error
\* and the warning-only stand-in when initializeApp, messaging() or
\* onBackgroundMessage threw or the configuration was invalid; and no error
\* of those three statements ever escapes the script.
ScriptExportsSafeMessaging ==
  /\ swPc = "done" =>
       /\ swExported # "null"
       /\ swExported = "real" <=> (\A st \in InitStatements : swSteps[st] = "ok")
       /\ swExported = "standin" <=>
            (\/ ~ScriptHasConfig(swConfig)
             \/ \E st \in InitStatements : swSteps[st] = "throws")
  /\ swPc = "aborted" => swAbortCause \notin InitStatements

\* C8: whenever displaying the full notification fails (showNotification
\* throws or its promise rejects) the handler calls showNotification again
\* with the minimal notification.
DisplayFailureFallsBackToMinimal ==
  (swMsgCount > 0 /\ swLast.fullOutcome \in {"throws", "rejects"}) =>
     swLast.fallbackCalled

=============================================================================
